---- MODULE Spec2Model ----
(***************************************************************************)
(* Schema visualizer of pesapal-rdbms-2026 (SchemaVisualizer view, the     *)
(* <script setup> block of src/unnamed/part_001, lines 266-522).           *)
(*                                                                         *)
(* Modelling conventions                                                   *)
(*  - A JavaScript object is a TLA+ record; a property the object does not *)
(*    have is a field the record does not have ("x" \notin DOMAIN t), so   *)
(*    that reading it yields undefined as in the source.                   *)
(*  - A string is the sequence of its characters, so that endsWith and the *)
(*    regular expression /_id$/ are computed, not assumed.                 *)
(*  - Positions are whole pixels: a floating point result is rounded down. *)
(*    cos/sin are taken from a table in thousandths.                       *)
(*  - NaN is the one number that is no integer; it is a reserved value.    *)
(*  - A handler runs to completion (one event loop task), so each handler  *)
(*    is one action; loadSchema is two: up to its await, and after it.     *)
(*  - The app store (lines 1019-1059 of the same file) is modelled next to  *)
(*    the view; the view's handlers leave it alone and the reverse.        *)
(***************************************************************************)
EXTENDS Integers, Sequences, FiniteSets, TLC

VARIABLES
    mounted,        \* onMounted has run (the component is on the page)
    loading,        \* loading.value
    tables,         \* tables.value
    relationships,  \* relationships.value
    autoLayout,     \* autoLayout.value
    svgWidth,       \* svgWidth.value
    svgHeight,      \* svgHeight.value
    dragTable,      \* let dragTable
    dragOffset,     \* let dragOffset
    listeners,      \* document's listeners that the component registered
    pending,        \* axios requests issued and not yet settled
    lastEvent,      \* history: the handler that ran last, and how it ended
    queryHistory,   \* the app store's queryHistory
    localStorage,   \* the item stored under the key queryHistory
    clock,          \* the clock that new Date() reads
    session,        \* whether the App component of this page load has mounted
    added           \* history: every entry added, oldest first

\* The component's part of the state
viewVars == <<mounted, loading, tables, relationships, autoLayout, svgWidth,
              svgHeight, dragTable, dragOffset, listeners, pending>>

\* The app store's part of the state
storeVars == <<queryHistory, localStorage, clock, session, added>>

vars == <<mounted, loading, tables, relationships, autoLayout, svgWidth,
          svgHeight, dragTable, dragOffset, listeners, pending, lastEvent,
          queryHistory, localStorage, clock, session, added>>

-----------------------------------------------------------------------------
(* Bounds of the model *)

\* Longest table list a provider response carries.
MaxTables == 2

\* Length of the one long table list of SpecLayout: more than one grid row.
MaxSeeded == 4

\* Most loads outstanding at once when loadSchema is called directly.
MaxPending == 2

\* Calls of addToQueryHistory in one behaviour: more than the history keeps.
MaxAdds == 22

\* Last reading of the clock: two calls may fall in the same millisecond.
MaxClock == 1

-----------------------------------------------------------------------------
(* JavaScript values *)

\* The result of arithmetic on undefined (svgWidth - undefined): NaN.
NaN == -2000000

IsNaN(v) == v = NaN

Has(obj, f) == f \in DOMAIN obj

\* obj.f = val
SetProp(obj, f, val) == (f :> val) @@ obj

\* !v for a number v read from a property that exists
Falsy(v) == v = 0 \/ IsNaN(v)

Min(a, b) == IF a <= b THEN a ELSE b

Max(a, b) == IF a >= b THEN a ELSE b

\* String.prototype.endsWith
EndsWith(s, suffix) ==
    /\ Len(s) >= Len(suffix)
    /\ SubSeq(s, Len(s) - Len(suffix) + 1, Len(s)) = suffix

IdSuffix == <<"_", "i", "d">>

IdName == <<"i", "d">>

\* name.replace(/_id$/, '')
StripIdSuffix(s) ==
    IF EndsWith(s, IdSuffix) THEN SubSeq(s, 1, Len(s) - Len(IdSuffix)) ELSE s

-----------------------------------------------------------------------------
(* Program constants *)

DefaultSvgWidth == 1200

DefaultSvgHeight == 800

NodeWidth == 280

BaseHeight == 200

RowHeight == 25

HalfNodeWidth == 140

HalfBaseHeight == 100

GridLeft == 100

GridTop == 100

GridColumns == 3

GridStepX == 350

GridStepY == 250

-----------------------------------------------------------------------------
(* Inputs: what the Schema Provider may answer, where the pointer may be *)

Col(n, ty, pk) == [name |-> n, type |-> ty, primary |-> pk]

\* {name: "u", columns: [id], row_count: 2}
DUsers ==
    [name |-> <<"u">>, columns |-> <<Col(IdName, "INT", TRUE)>>, row_count |-> 2]

\* {name: "o", columns: [id, u_id, o_id], row_count: 5}: u_id names table u,
\* o_id names table o itself (a parent order)
DOrders ==
    [name |-> <<"o">>,
     columns |-> <<Col(IdName, "INT", TRUE),
                   Col(<<"u", "_", "i", "d">>, "INT", FALSE),
                   Col(<<"o", "_", "i", "d">>, "INT", FALSE)>>,
     row_count |-> 5]

\* A malformed descriptor: no columns array
DLogs == [name |-> <<"l">>, row_count |-> 0]

\* {name: "id", columns: [], row_count: 0}: a table that is itself named id
\* and has no columns yet
DId == [name |-> IdName, columns |-> <<>>, row_count |-> 0]

\* {name: "o", row_count: 5}: the descriptor of table o sent without its
\* columns array
DOrdersBare == [name |-> <<"o">>, row_count |-> 5]

\* The well-formed descriptors
Descriptors == {DUsers, DOrders}

RECURSIVE SeqsUpTo(_, _)
SeqsUpTo(S, n) ==
    IF n = 0 THEN {<<>>}
    ELSE LET shorter == SeqsUpTo(S, n - 1)
         IN  shorter \cup {Append(s, d) : s \in shorter, d \in S}

\* A response without a body, a body without a table list, every list of up
\* to MaxTables well-formed descriptors (repeated names included), every
\* such list whose last descriptor is the malformed one, a schema that has a
\* table named id, and a schema whose one table came without columns.
Responses ==
    {[status |-> 200], [status |-> 200, data |-> [message |-> "ok"]]}
    \cup {[status |-> 200, data |-> [tables |-> <<DId, DUsers>>]]}
    \cup {[status |-> 200, data |-> [tables |-> <<DOrdersBare>>]]}
    \cup {[status |-> 200, data |-> [tables |-> s]] : s \in SeqsUpTo(Descriptors, MaxTables)}
    \cup {[status |-> 200, data |-> [tables |-> Append(s, DLogs)]] :
             s \in SeqsUpTo(Descriptors, MaxTables - 1)}

DigitChars == <<"1", "2", "3", "4", "5", "6">>

\* {name: "t<i>", columns: [id], row_count: i}
SeededTable(i) ==
    [name |-> <<"t", DigitChars[i]>>, columns |-> <<Col(IdName, "INT", TRUE)>>,
     row_count |-> i]

RECURSIVE SeededTables(_)
SeededTables(n) == IF n = 0 THEN <<>> ELSE Append(SeededTables(n - 1), SeededTable(n))

\* An empty schema and a schema of MaxSeeded tables with different names
LongResponses ==
    {[status |-> 200, data |-> [tables |-> SeededTables(n)]] : n \in {0, MaxSeeded}}

\* Column descriptors with the optional properties unique, nullable, default
ColSku ==
    [name |-> <<"s", "k", "u">>, type |-> "INT", primary |-> FALSE, unique |-> TRUE,
     nullable |-> FALSE, default |-> 0]

ColQty ==
    [name |-> <<"q", "t", "y">>, type |-> "INT", primary |-> FALSE, unique |-> FALSE,
     nullable |-> TRUE, default |-> 7]

ColRef ==
    [name |-> <<"a", "_", "i", "d">>, type |-> "INT", primary |-> FALSE,
     nullable |-> TRUE]

\* {name: "a", columns: [id, sku], row_count: 3}
DItems ==
    [name |-> <<"a">>, columns |-> <<Col(IdName, "INT", TRUE), ColSku>>, row_count |-> 3]

\* {name: "b", columns: [qty, a_id], row_count: 1}
DStock == [name |-> <<"b">>, columns |-> <<ColQty, ColRef>>, row_count |-> 1]

\* Schemas whose columns carry constraints and defaults, in both table orders
ExportResponses ==
    {[status |-> 200, data |-> [tables |-> ts]] :
        ts \in {<<>>, <<DItems>>, <<DItems, DStock>>, <<DStock, DItems>>}}

\* new Date().toISOString() at the time of an export
Times == {"2026-01-01T00:00:00.000Z", "2026-01-02T00:00:00.000Z"}

\* Responses with an empty table list or with no table list
EmptyResponses ==
    {[status |-> 200, data |-> [tables |-> <<>>]], [status |-> 200, data |-> [message |-> "ok"]]}

\* container.clientWidth x container.clientHeight at mount: a panel of the
\* default width that holds a one-column node (225 high) but is lower than a
\* three-column node (275 high)
CanvasSizes == {<<1200, 250>>}

\* event.clientX - containerRect.left, event.clientY - containerRect.top: a
\* pointer left of and below the canvas
Pointers == {<<-10, 920>>}

\* event.clientX - rect.left, event.clientY - rect.top at mousedown
GrabOffsets == {<<40, 20>>}

-----------------------------------------------------------------------------
(* Layout Engine *)

CosTable ==
    << <<1000>>,
       <<1000, -1000>>,
       <<1000, -500, -500>>,
       <<1000, 0, -1000, 0>>,
       <<1000, 309, -809, -809, 309>>,
       <<1000, 500, -500, -1000, -500, 500>> >>

SinTable ==
    << <<0>>,
       <<0, 0>>,
       <<0, 866, -866>>,
       <<0, 1000, 0, -1000>>,
       <<0, 951, 588, -588, -951>>,
       <<0, 866, 866, 0, -866, -866>> >>

\* 1000 * Math.cos(index * 2 * Math.PI / n), index counted from 0
Cos1000(index, n) == CosTable[n][index + 1]

Sin1000(index, n) == SinTable[n][index + 1]

\* centerX + radius * Math.cos(angle) - 140, with centerX = w / 2 and
\* radius = Math.min(w, h) / 3
AutoX(index, n, w, h) ==
    ((3000 * w + 2 * Min(w, h) * Cos1000(index, n)) \div 6000) - HalfNodeWidth

AutoY(index, n, w, h) ==
    ((3000 * h + 2 * Min(w, h) * Sin1000(index, n)) \div 6000) - HalfBaseHeight

\* Mutant: the grid without its wrap into rows of three
GridXOneRow(index) == GridLeft + index * GridStepX

GridX(index) == GridLeft + (index % GridColumns) * GridStepX

GridY(index) == GridTop + (index \div GridColumns) * GridStepY

\* Mutant: the height without the rows of the columns
PlaceBaseHeight(t, x, y) ==
    LET placed == SetProp(SetProp(SetProp(t, "x", x), "y", y), "width", NodeWidth)
    IN  IF Has(t, "columns") THEN SetProp(placed, "height", BaseHeight) ELSE placed

\* The body of both forEach callbacks: x, y and width are assigned, then
\* table.columns.length is read, which throws when there is no columns array.
Place(t, x, y) ==
    LET placed == SetProp(SetProp(SetProp(t, "x", x), "y", y), "width", NodeWidth)
    IN  IF Has(t, "columns")
        THEN SetProp(placed, "height", BaseHeight + Len(t.columns) * RowHeight)
        ELSE placed

\* Index (from 1) of the first table without a columns array, Len + 1 if none
FirstBad(ts) ==
    LET bad == {i \in 1..Len(ts) : ~Has(ts[i], "columns")}
    IN  IF bad = {} THEN Len(ts) + 1 ELSE CHOOSE i \in bad : \A j \in bad : i <= j

Throws(ts) == FirstBad(ts) <= Len(ts)

\* tables.value after applyAutoLayout returned or threw
ApplyAutoLayout(ts, w, h) ==
    LET last == FirstBad(ts)
    IN  [i \in 1..Len(ts) |->
            IF i <= last
            THEN Place(ts[i], AutoX(i - 1, Len(ts), w, h), AutoY(i - 1, Len(ts), w, h))
            ELSE ts[i]]

\* tables.value after the default-position forEach returned or threw
ApplyGrid(ts) ==
    LET last == FirstBad(ts)
    IN  [i \in 1..Len(ts) |->
            IF i <= last THEN Place(ts[i], GridX(i - 1), GridY(i - 1)) ELSE ts[i]]

\* !tables.value[0]?.x
FirstHasNoX(ts) ==
    \/ Len(ts) = 0
    \/ ~Has(ts[1], "x")
    \/ Falsy(ts[1].x)

-----------------------------------------------------------------------------
(* Relationship Inference Engine *)

IsCandidate(column) == EndsWith(column.name, IdSuffix) \/ column.name = IdName

Relationship(t, column) ==
    [from |-> StripIdSuffix(column.name), to |-> t.name,
     column |-> column.name, type |-> "foreign_key"]

Emits(ts, t, column) ==
    /\ IsCandidate(column)
    /\ \E k \in 1..Len(ts) : ts[k].name = StripIdSuffix(column.name)

\* The inner loop over the first n columns of t
RECURSIVE RelsOfColumns(_, _, _)
RelsOfColumns(ts, t, n) ==
    IF n = 0 THEN <<>>
    ELSE LET before == RelsOfColumns(ts, t, n - 1)
         IN  IF Emits(ts, t, t.columns[n])
             THEN Append(before, Relationship(t, t.columns[n]))
             ELSE before

\* The outer loop over the first n tables
RECURSIVE RelsOfTables(_, _)
RelsOfTables(ts, n) ==
    IF n = 0 THEN <<>>
    ELSE RelsOfTables(ts, n - 1) \o RelsOfColumns(ts, ts[n], Len(ts[n].columns))

\* Mutant: detectRelationships without relationships.value = []
DetectRelationshipsAppends(ts) == relationships \o RelsOfTables(ts, FirstBad(ts) - 1)

\* relationships.value after detectRelationships returned or threw (for...of
\* over a missing columns array throws; what was pushed before stays)
DetectRelationships(ts) == RelsOfTables(ts, FirstBad(ts) - 1)

-----------------------------------------------------------------------------
(* Relationship Renderer *)

\* What Array.prototype.find returns when no element matches
Undefined == [undefined |-> TRUE]

\* The outcome of a call that ended in an uncaught TypeError
TypeError == <<"TypeError">>

\* ts.find(t => t.name === name)
Find(ts, name) ==
    LET hits == {k \in 1..Len(ts) : ts[k].name = name}
    IN  IF hits = {} THEN Undefined ELSE ts[CHOOSE k \in hits : \A j \in hits : k <= j]

\* obj.f read as a number: a missing property is undefined, NaN in arithmetic
Num(obj, f) == IF Has(obj, f) THEN obj[f] ELSE NaN

Plus(a, b) == IF IsNaN(a) \/ IsNaN(b) THEN NaN ELSE a + b

\* The eight numbers of `M a b C c d, e f, g h`, in half pixels so that
\* height / 2 and the midpoint stay whole: start, two control points, end.
Curve(fromTable, toTable) ==
    LET fromX == Plus(Num(fromTable, "x"), Num(fromTable, "width"))
        toX == Num(toTable, "x")
        fromX2 == Plus(fromX, fromX)
        fromY2 == Plus(Plus(Num(fromTable, "y"), Num(fromTable, "y")), Num(fromTable, "height"))
        toX2 == Plus(toX, toX)
        toY2 == Plus(Plus(Num(toTable, "y"), Num(toTable, "y")), Num(toTable, "height"))
        midX2 == Plus(fromX, toX)
    IN  <<fromX2, fromY2, midX2, fromY2, midX2, toY2, toX2, toY2>>

\* The empty string
EmptyPath == <<>>

\* Mutant: the guard tests only fromTable, so toTable.x throws on undefined
CalculateConnectionPathFromOnly(relationship) ==
    LET fromTable == Find(tables, relationship.from)
        toTable == Find(tables, relationship.to)
    IN  IF fromTable = Undefined THEN EmptyPath
        ELSE IF toTable = Undefined THEN TypeError
        ELSE Curve(fromTable, toTable)

\* calculateConnectionPath
CalculateConnectionPath(relationship) ==
    LET fromTable == Find(tables, relationship.from)
        toTable == Find(tables, relationship.to)
    IN  IF fromTable = Undefined \/ toTable = Undefined THEN EmptyPath
        ELSE Curve(fromTable, toTable)

-----------------------------------------------------------------------------
(* Export Adapters *)

\* null of a JSON document
JsonNull == -3000000

\* JSON.stringify writes NaN as null; JSON.parse reads every other number back
JsonNumber(v) == IF IsNaN(v) THEN JsonNull ELSE v

\* A table object written by JSON.stringify and read back by JSON.parse: every
\* own property is kept, strings, booleans, arrays and finite numbers as they
\* are
JsonTable(t) ==
    [f \in DOMAIN t |-> IF f \in {"x", "y", "width", "height"} THEN JsonNumber(t[f]) ELSE t[f]]

RECURSIVE JsonTables(_, _)
JsonTables(ts, n) ==
    IF n = 0 THEN <<>> ELSE Append(JsonTables(ts, n - 1), JsonTable(ts[n]))

\* Mutant: the export writes the tables and leaves the relationships empty
ExportAsJSONTablesOnly(now) ==
    [tables |-> JsonTables(tables, Len(tables)), relationships |-> <<>>, exportedAt |-> now]

\* exportAsJSON at time now: the document a reader of the downloaded file
\* parses
ExportAsJSON(now) ==
    [tables |-> JsonTables(tables, Len(tables)),
     relationships |-> relationships,
     exportedAt |-> now]

\* if (col.f) for a flag that may be missing
Flag(col, f) == Has(col, f) /\ col[f] = TRUE

\* One column line of exportAsSQL: the name, the type, the keywords in the
\* order they are appended, the value after DEFAULT, and the comma
SqlLine(col, index, count) ==
    LET hasDefault == Has(col, "default") /\ ~Falsy(col.default)
    IN  [name |-> col.name,
         type |-> col.type,
         keywords |-> (IF Flag(col, "primary") THEN <<"PRIMARY KEY">> ELSE <<>>)
                      \o (IF Flag(col, "unique") THEN <<"UNIQUE">> ELSE <<>>)
                      \o (IF ~Flag(col, "nullable") THEN <<"NOT NULL">> ELSE <<>>)
                      \o (IF hasDefault THEN <<"DEFAULT">> ELSE <<>>),
         value |-> IF hasDefault THEN <<col.default>> ELSE <<>>,
         comma |-> index < count - 1]

RECURSIVE SqlLines(_, _)
SqlLines(columns, n) ==
    IF n = 0 THEN <<>>
    ELSE Append(SqlLines(columns, n - 1), SqlLine(columns[n], n - 1, Len(columns)))

\* The statement of one table: `CREATE TABLE name (`, the lines, `);`
SqlStatement(t) == [create |-> t.name, lines |-> SqlLines(t.columns, Len(t.columns))]

RECURSIVE SqlStatements(_, _)
SqlStatements(ts, n) ==
    IF n = 0 THEN <<>> ELSE Append(SqlStatements(ts, n - 1), SqlStatement(ts[n]))

\* exportAsSQL: the statements of the downloaded file, or the TypeError of
\* table.columns.forEach on a table without columns
ExportAsSQL ==
    IF Throws(tables) THEN TypeError ELSE SqlStatements(tables, Len(tables))

-----------------------------------------------------------------------------
(* Initial state: the refs and lets of the script block *)

NoDrag == [kind |-> "null"]

\* What localStorage.getItem returns for a key that was never set
NoItem == [item |-> "null"]

Init ==
    /\ mounted = FALSE
    /\ loading = FALSE
    /\ tables = <<>>
    /\ relationships = <<>>
    /\ autoLayout = TRUE
    /\ svgWidth = DefaultSvgWidth
    /\ svgHeight = DefaultSvgHeight
    /\ dragTable = NoDrag
    /\ dragOffset = <<0, 0>>
    /\ listeners = {}
    /\ pending = 0
    /\ lastEvent = "setup"
    /\ queryHistory = <<>>
    /\ localStorage = NoItem
    /\ clock = 0
    /\ session = "created"
    /\ added = <<>>

-----------------------------------------------------------------------------
(* Loading *)

\* loadSchema up to the await: loading is set and the request is issued
LoadSchemaStart ==
    /\ loading' = TRUE
    /\ pending' = pending + 1

\* onMounted: starts a load, then sizes the canvas from the container
OnMounted(size) ==
    /\ ~mounted
    /\ mounted' = TRUE
    /\ LoadSchemaStart
    /\ svgWidth' = size[1]
    /\ svgHeight' = size[2]
    /\ lastEvent' = "onMounted"
    /\ UNCHANGED <<tables, relationships, autoLayout, dragTable, dragOffset, listeners>>
    /\ UNCHANGED storeVars

\* Mutant: a refresh button that is never disabled
RefreshSchemaAlways ==
    /\ mounted
    /\ pending < MaxPending
    /\ LoadSchemaStart
    /\ lastEvent' = "refreshSchema"
    /\ UNCHANGED <<mounted, tables, relationships, autoLayout, svgWidth, svgHeight,
                   dragTable, dragOffset, listeners>>
    /\ UNCHANGED storeVars

\* The refresh button, which is disabled while loading
RefreshSchema ==
    /\ mounted
    /\ ~loading
    /\ LoadSchemaStart
    /\ lastEvent' = "refreshSchema"
    /\ UNCHANGED <<mounted, tables, relationships, autoLayout, svgWidth, svgHeight,
                   dragTable, dragOffset, listeners>>
    /\ UNCHANGED storeVars

\* Mutant: a response without tables leaves the tables of the last load in
\* place
LaidKeepsWhenEmpty(ts) ==
    IF ts = <<>> THEN tables
    ELSE IF autoLayout THEN ApplyAutoLayout(ts, svgWidth, svgHeight)
    ELSE IF FirstHasNoX(ts) THEN ApplyGrid(ts)
    ELSE ts

\* tables.value after the layout branch of loadSchema
Laid(ts) ==
    IF autoLayout THEN ApplyAutoLayout(ts, svgWidth, svgHeight)
    ELSE IF FirstHasNoX(ts) THEN ApplyGrid(ts)
    ELSE ts

\* Whether the layout branch throws
LayoutThrows(ts) == (autoLayout \/ FirstHasNoX(ts)) /\ Throws(ts)

\* Mutant: a load drops the drag target
DetachClears(d) == NoDrag

\* The dragged object is no longer reachable from tables.value once
\* tables.value is assigned: the drag keeps the object itself.
Detach(d) ==
    IF d.kind = "live" THEN [kind |-> "detached", obj |-> tables[d.index]] ELSE d

\* Mutant: the catch block empties the model
LoadRejectedClears ==
    /\ pending > 0
    /\ pending' = pending - 1
    /\ loading' = FALSE
    /\ tables' = <<>>
    /\ relationships' = <<>>
    /\ lastEvent' = "loadSchema:rejected"
    /\ UNCHANGED <<mounted, autoLayout, svgWidth, svgHeight, dragTable, dragOffset,
                   listeners>>
    /\ UNCHANGED storeVars

\* The request failed: catch logs, finally clears loading
LoadRejected ==
    /\ pending > 0
    /\ pending' = pending - 1
    /\ loading' = FALSE
    /\ lastEvent' = "loadSchema:rejected"
    /\ UNCHANGED <<mounted, tables, relationships, autoLayout, svgWidth, svgHeight,
                   dragTable, dragOffset, listeners>>
    /\ UNCHANGED storeVars

\* Mutant: a resolved load skips the inference while another load is
\* outstanding
LoadResolvedInfersLast(resp) ==
    /\ pending > 0
    /\ pending' = pending - 1
    /\ loading' = FALSE
    /\ IF ~Has(resp, "data")
       THEN /\ lastEvent' = "loadSchema:threw"
            /\ UNCHANGED <<tables, relationships, dragTable>>
       ELSE LET ts == IF Has(resp.data, "tables") THEN resp.data.tables ELSE <<>>
                laid == Laid(ts)
            IN  /\ tables' = laid
                /\ dragTable' = Detach(dragTable)
                /\ IF LayoutThrows(ts)
                   THEN /\ relationships' = relationships
                        /\ lastEvent' = "loadSchema:threw"
                   ELSE /\ relationships' = (IF pending > 1 THEN relationships
                                             ELSE DetectRelationships(laid))
                        /\ lastEvent' = (IF Throws(laid) THEN "loadSchema:threw" ELSE "loadSchema:loaded")
    /\ UNCHANGED <<mounted, autoLayout, svgWidth, svgHeight, dragOffset, listeners>>
    /\ UNCHANGED storeVars

\* The request succeeded with response resp: the rest of the try block, which a
\* TypeError may leave at any statement, then finally
LoadResolved(resp) ==
    /\ pending > 0
    /\ pending' = pending - 1
    /\ loading' = FALSE
    /\ IF ~Has(resp, "data")
       THEN \* response.data.tables throws before anything is assigned
            /\ lastEvent' = "loadSchema:threw"
            /\ UNCHANGED <<tables, relationships, dragTable>>
       ELSE LET ts == IF Has(resp.data, "tables") THEN resp.data.tables ELSE <<>>
                laid == Laid(ts)
            IN  /\ tables' = laid
                /\ dragTable' = Detach(dragTable)
                /\ IF LayoutThrows(ts)
                   THEN /\ relationships' = relationships
                        /\ lastEvent' = "loadSchema:threw"
                   ELSE /\ relationships' = DetectRelationships(laid)
                        /\ lastEvent' = (IF Throws(laid) THEN "loadSchema:threw" ELSE "loadSchema:loaded")
    /\ UNCHANGED <<mounted, autoLayout, svgWidth, svgHeight, dragOffset, listeners>>
    /\ UNCHANGED storeVars

-----------------------------------------------------------------------------
(* View options *)

\* Mutant: a watcher that seeds the grid when Auto Layout is switched off
ToggleAutoLayoutReseeds ==
    /\ mounted
    /\ autoLayout' = ~autoLayout
    /\ tables' = IF autoLayout /\ ~Throws(tables) THEN ApplyGrid(tables) ELSE tables
    /\ lastEvent' = "toggleAutoLayout"
    /\ UNCHANGED <<mounted, loading, relationships, svgWidth, svgHeight,
                   dragTable, dragOffset, listeners, pending>>
    /\ UNCHANGED storeVars

\* The Auto Layout checkbox (v-model)
ToggleAutoLayout ==
    /\ mounted
    /\ autoLayout' = ~autoLayout
    /\ lastEvent' = "toggleAutoLayout"
    /\ UNCHANGED <<mounted, loading, tables, relationships, svgWidth, svgHeight,
                   dragTable, dragOffset, listeners, pending>>
    /\ UNCHANGED storeVars

-----------------------------------------------------------------------------
(* Interaction Controller *)

\* Mutant: startDrag without its auto-layout guard
StartDragUnguarded(index, grab) ==
    /\ mounted
    /\ index \in 1..Len(tables)
    /\ dragTable' = [kind |-> "live", index |-> index]
    /\ dragOffset' = grab
    /\ listeners' = listeners \cup {"mousemove", "mouseup"}
    /\ lastEvent' = IF autoLayout THEN "startDrag:ignored" ELSE "startDrag:armed"
    /\ UNCHANGED <<mounted, loading, tables, relationships, autoLayout, svgWidth,
                   svgHeight, pending>>
    /\ UNCHANGED storeVars

\* mousedown on the node of tables.value[index]
StartDrag(index, grab) ==
    /\ mounted
    /\ index \in 1..Len(tables)
    /\ IF autoLayout
       THEN /\ lastEvent' = "startDrag:ignored"
            /\ UNCHANGED <<dragTable, dragOffset, listeners>>
       ELSE /\ dragTable' = [kind |-> "live", index |-> index]
            /\ dragOffset' = grab
            /\ listeners' = listeners \cup {"mousemove", "mouseup"}
            /\ lastEvent' = "startDrag:armed"
    /\ UNCHANGED <<mounted, loading, tables, relationships, autoLayout, svgWidth,
                   svgHeight, pending>>
    /\ UNCHANGED storeVars

\* Mutant: the clamp without its Math.max(0, ...)
ClampUpperOnly(v, limit, obj, sizeProp) ==
    IF Has(obj, sizeProp) THEN Min(limit - obj[sizeProp], v) ELSE NaN

\* Math.max(0, Math.min(limit - size, v)); size is undefined on a table the
\* layout never finished
Clamp(v, limit, obj, sizeProp) ==
    IF Has(obj, sizeProp) THEN Max(0, Min(limit - obj[sizeProp], v)) ELSE NaN

\* The dragged object after handleDrag's four assignments
Dragged(obj, pointer) ==
    LET x == pointer[1] - dragOffset[1]
        y == pointer[2] - dragOffset[2]
        movedX == SetProp(obj, "x", Clamp(x, svgWidth, obj, "width"))
    IN  SetProp(movedX, "y", Clamp(y, svgHeight, movedX, "height"))

\* Mutant: a drag that pans the whole diagram
HandleDragMovesAll(pointer) ==
    /\ IF dragTable.kind = "null"
       THEN UNCHANGED <<tables, dragTable>>
       ELSE IF dragTable.kind = "live"
       THEN /\ tables' = [i \in 1..Len(tables) |-> Dragged(tables[i], pointer)]
            /\ UNCHANGED dragTable
       ELSE /\ dragTable' = [dragTable EXCEPT !.obj = Dragged(@, pointer)]
            /\ UNCHANGED tables
    /\ UNCHANGED <<listeners, dragOffset>>

\* handleDrag
HandleDrag(pointer) ==
    /\ IF dragTable.kind = "null"
       THEN UNCHANGED <<tables, dragTable>>
       ELSE IF dragTable.kind = "live"
       THEN /\ tables' = [tables EXCEPT ![dragTable.index] = Dragged(@, pointer)]
            /\ UNCHANGED dragTable
       ELSE /\ dragTable' = [dragTable EXCEPT !.obj = Dragged(@, pointer)]
            /\ UNCHANGED tables
    /\ UNCHANGED <<listeners, dragOffset>>

\* Mutant: stopDrag that forgets the mousemove listener
StopDragKeepsMoveListener ==
    /\ dragTable' = NoDrag
    /\ listeners' = listeners \ {"mouseup"}
    /\ UNCHANGED <<tables, dragOffset>>

\* stopDrag
StopDrag ==
    /\ dragTable' = NoDrag
    /\ listeners' = listeners \ {"mousemove", "mouseup"}
    /\ UNCHANGED <<tables, dragOffset>>

\* A mousemove anywhere in the document: handleDrag runs if it is registered
MouseMove(pointer) ==
    /\ mounted
    /\ IF "mousemove" \in listeners
       THEN HandleDrag(pointer)
       ELSE UNCHANGED <<tables, dragTable, listeners, dragOffset>>
    /\ lastEvent' = "mousemove"
    /\ UNCHANGED <<mounted, loading, relationships, autoLayout, svgWidth, svgHeight,
                   pending>>
    /\ UNCHANGED storeVars

\* A mouseup anywhere in the document: stopDrag runs if it is registered
MouseUp ==
    /\ mounted
    /\ IF "mouseup" \in listeners
       THEN StopDrag
       ELSE UNCHANGED <<tables, dragTable, listeners, dragOffset>>
    /\ lastEvent' = "mouseup"
    /\ UNCHANGED <<mounted, loading, relationships, autoLayout, svgWidth, svgHeight,
                   pending>>
    /\ UNCHANGED storeVars

-----------------------------------------------------------------------------

Next ==
    \/ \E size \in CanvasSizes : OnMounted(size)
    \/ RefreshSchema
    \/ LoadRejected
    \/ \E resp \in Responses : LoadResolved(resp)
    \/ ToggleAutoLayout
    \/ \E index \in 1..(MaxTables + 1), grab \in GrabOffsets : StartDrag(index, grab)
    \/ \E pointer \in Pointers : MouseMove(pointer)
    \/ MouseUp

Spec == Init /\ [][Next]_vars

\* The same handlers, with a provider whose schema fills more than one row of
\* the default grid
NextLayout ==
    \/ \E size \in CanvasSizes : OnMounted(size)
    \/ RefreshSchema
    \/ LoadRejected
    \/ \E resp \in LongResponses : LoadResolved(resp)
    \/ ToggleAutoLayout
    \/ \E index \in 1..MaxSeeded, grab \in GrabOffsets : StartDrag(index, grab)
    \/ \E pointer \in Pointers : MouseMove(pointer)
    \/ MouseUp

SpecLayout == Init /\ [][NextLayout]_vars

\* Well-formed schemas of different tables
OverlapResponses ==
    {[status |-> 200, data |-> [tables |-> ts]] :
        ts \in {<<>>, <<DUsers>>, <<DOrders, DUsers>>}}

\* loadSchema called while earlier calls are outstanding: it has no guard of
\* its own
LoadSchema ==
    /\ mounted
    /\ pending > 0
    /\ pending < MaxPending
    /\ LoadSchemaStart
    /\ lastEvent' = "loadSchema"
    /\ UNCHANGED <<mounted, tables, relationships, autoLayout, svgWidth, svgHeight,
                   dragTable, dragOffset, listeners>>
    /\ UNCHANGED storeVars

\* The component with loadSchema as an operation of its own
NextOverlap ==
    \/ \E size \in CanvasSizes : OnMounted(size)
    \/ LoadSchema
    \/ RefreshSchema /\ pending < MaxPending
    \/ LoadRejected
    \/ \E resp \in OverlapResponses : LoadResolved(resp)
    \/ ToggleAutoLayout
    \/ \E index \in 1..2, grab \in GrabOffsets : StartDrag(index, grab)
    \/ \E pointer \in Pointers : MouseMove(pointer)
    \/ MouseUp

SpecOverlap == Init /\ [][NextOverlap]_vars

\* The JSON and SQL export buttons: a file is downloaded, no ref is assigned
ExportClicked(format) ==
    /\ mounted
    /\ lastEvent' = format
    /\ UNCHANGED <<mounted, loading, tables, relationships, autoLayout, svgWidth,
                   svgHeight, dragTable, dragOffset, listeners, pending>>
    /\ UNCHANGED storeVars

\* The same handlers and the export buttons, with a provider whose columns
\* carry constraints and defaults
NextExport ==
    \/ \E size \in CanvasSizes : OnMounted(size)
    \/ RefreshSchema
    \/ LoadRejected
    \/ \E resp \in ExportResponses : LoadResolved(resp)
    \/ ToggleAutoLayout
    \/ \E index \in 1..2, grab \in GrabOffsets : StartDrag(index, grab)
    \/ \E pointer \in Pointers : MouseMove(pointer)
    \/ MouseUp
    \/ \E format \in {"exportAsJSON", "exportAsSQL"} : ExportClicked(format)

SpecExport == Init /\ [][NextExport]_vars

-----------------------------------------------------------------------------
(* App store: the query history *)

\* Entries the history keeps
HistoryLimit == 20

\* The text of a query that ran
Queries == {<<"S", "E", "L", "E", "C", "T", " ", "1">>}

\* new Date().toISOString() at clock reading ms
ToISOString(ms) == <<"1970-01-01T00:00:00.00", ms, "Z">>

\* An entry written by JSON.stringify and read back by JSON.parse: both
\* properties are strings and are kept
JsonEntry(e) == [f \in DOMAIN e |-> e[f]]

\* The item setItem stores for JSON.stringify(history)
Stringify(history) ==
    [item |-> "string", text |-> [i \in 1..Len(history) |-> JsonEntry(history[i])]]

\* JSON.parse of a stored item
Parse(saved) == saved.text

\* Mutant: the history keeps its last 20 entries, the oldest ones
AddToQueryHistoryKeepsOldest(query) ==
    LET entry == [query |-> query, timestamp |-> ToISOString(clock)]
        unshifted == <<entry>> \o queryHistory
        kept == IF Len(unshifted) > HistoryLimit
                THEN SubSeq(unshifted, Len(unshifted) - HistoryLimit + 1, Len(unshifted))
                ELSE unshifted
    IN  /\ session = "mounted"
        /\ Len(added) < MaxAdds
        /\ queryHistory' = kept
        /\ localStorage' = Stringify(kept)
        /\ added' = Append(added, entry)
        /\ lastEvent' = "addToQueryHistory"
        /\ UNCHANGED <<clock, session>>
        /\ UNCHANGED viewVars

\* addToQueryHistory(query), called by the query view after a query ran
AddToQueryHistory(query) ==
    LET entry == [query |-> query, timestamp |-> ToISOString(clock)]
        unshifted == <<entry>> \o queryHistory
        kept == IF Len(unshifted) > HistoryLimit
                THEN SubSeq(unshifted, 1, HistoryLimit)
                ELSE unshifted
    IN  /\ session = "mounted"
        /\ Len(added) < MaxAdds
        /\ queryHistory' = kept
        /\ localStorage' = Stringify(kept)
        /\ added' = Append(added, entry)
        /\ lastEvent' = "addToQueryHistory"
        /\ UNCHANGED <<clock, session>>
        /\ UNCHANGED viewVars

\* loadQueryHistory, called once by the App component when it mounts
LoadQueryHistory ==
    /\ session = "created"
    /\ session' = "mounted"
    /\ queryHistory' = IF localStorage # NoItem THEN Parse(localStorage) ELSE queryHistory
    /\ lastEvent' = "loadQueryHistory"
    /\ UNCHANGED <<localStorage, clock, added>>
    /\ UNCHANGED viewVars

\* The page is loaded again: the store is created anew from state(), the
\* browser keeps localStorage
PageReload ==
    /\ session = "mounted"
    /\ session' = "created"
    /\ queryHistory' = <<>>
    /\ lastEvent' = "pageReload"
    /\ UNCHANGED <<localStorage, clock, added>>
    /\ UNCHANGED viewVars

\* Time passes
Tick ==
    /\ clock < MaxClock
    /\ clock' = clock + 1
    /\ UNCHANGED <<queryHistory, localStorage, session, added, lastEvent>>
    /\ UNCHANGED viewVars

NextStore ==
    \/ \E query \in Queries : AddToQueryHistory(query)
    \/ LoadQueryHistory
    \/ PageReload
    \/ Tick

SpecStore == Init /\ [][NextStore]_vars

-----------------------------------------------------------------------------
(* Properties *)

\* The object handleDrag writes to
DraggedObject ==
    IF dragTable.kind = "live" THEN tables[dragTable.index] ELSE dragTable.obj

Dragging == dragTable # NoDrag

Positioned(t) == Has(t, "x") /\ Has(t, "y") /\ Has(t, "width") /\ Has(t, "height")

\* 0 <= x <= canvasWidth - width and 0 <= y <= canvasHeight - height
WithinCanvas(t) ==
    /\ Positioned(t)
    /\ 0 <= t.x /\ t.x <= svgWidth - t.width
    /\ 0 <= t.y /\ t.y <= svgHeight - t.height

HasTableNamed(n) == \E k \in 1..Len(tables) : tables[k].name = n

\* C1: after detectRelationships has run, every column <X>_id of every table T
\* has exactly one entry {from: X, to: T.name, column: <X>_id} in relationships
\* if a table named X exists, and none if no table is named X.
C1_ExactlyOneRelationship ==
    lastEvent = "loadSchema:loaded" =>
        \A i \in 1..Len(tables) : \A c \in 1..Len(tables[i].columns) :
            LET column == tables[i].columns[c]
                x == StripIdSuffix(column.name)
                entries == {k \in 1..Len(relationships) :
                               /\ relationships[k].from = x
                               /\ relationships[k].to = tables[i].name
                               /\ relationships[k].column = column.name}
            IN  EndsWith(column.name, IdSuffix) =>
                    IF HasTableNamed(x) THEN Cardinality(entries) = 1
                    ELSE entries = {}

\* C2 (as claimed): after each pointer-move of a drag, the dragged table lies
\* within the canvas, whatever the canvas size.
C2_DragWithinCanvas ==
    (lastEvent = "mousemove" /\ Dragging) => WithinCanvas(DraggedObject)

\* One axis after a pointer-move: within [0, limit - size] when the node fits
\* the canvas, 0 when the canvas is smaller than the node, NaN when the node
\* has no size on that axis.
AxisClamped(obj, posProp, sizeProp, limit) ==
    IF ~Has(obj, sizeProp) THEN IsNaN(obj[posProp])
    ELSE IF limit >= obj[sizeProp]
         THEN 0 <= obj[posProp] /\ obj[posProp] <= limit - obj[sizeProp]
         ELSE obj[posProp] = 0

\* C2 (amended): after each pointer-move of a drag, on each axis where the
\* canvas is at least as large as the node the dragged table lies within
\* [0, canvas - node]; on an axis where the canvas is smaller the coordinate
\* is 0; on an axis where the table has no size the coordinate is NaN.
C2_DragClampedPerAxis ==
    (lastEvent = "mousemove" /\ Dragging) =>
        /\ AxisClamped(DraggedObject, "x", "width", svgWidth)
        /\ AxisClamped(DraggedObject, "y", "height", svgHeight)

\* C2 witness: a pointer-move of a drag has pulled a table that fits the canvas
\* to the canvas edge, with the pointer outside the canvas.
C2_Witness ==
    /\ lastEvent = "mousemove"
    /\ dragTable.kind = "live"
    /\ WithinCanvas(DraggedObject)
    /\ DraggedObject.x = 0
    /\ DraggedObject.y = svgHeight - DraggedObject.height

\* C3: after every successful load, in either layout mode, every table lies
\* within the canvas.
C3_LoadedWithinCanvas ==
    lastEvent = "loadSchema:loaded" =>
        \A i \in 1..Len(tables) : WithinCanvas(tables[i])

\* C4: in every reachable state every relationship's from and to name tables
\* of the current model.
C4_RelationshipsNameTables ==
    \A k \in 1..Len(relationships) :
        HasTableNamed(relationships[k].from) /\ HasTableNamed(relationships[k].to)

\* C5: the controller leaves Idle only by a pointer-down taken while
\* autoLayout is false, and a pointer-down while autoLayout is true changes
\* neither the drag target, nor the listeners, nor any position.
C5_DragOnlyInManualMode ==
    [][/\ (~Dragging /\ Dragging') =>
              (lastEvent' = "startDrag:armed" /\ ~autoLayout)
       /\ (lastEvent' \in {"startDrag:armed", "startDrag:ignored"} /\ autoLayout) =>
              UNCHANGED <<dragTable, dragOffset, listeners, tables>>]_vars

\* C5 witness: a pointer-down was ignored in auto mode and the controller is Idle.
C5_Witness ==
    /\ lastEvent = "startDrag:ignored"
    /\ autoLayout
    /\ ~Dragging
    /\ listeners = {}

\* C6: a pointer-up delivered while Dragging ends in Idle with both listeners
\* unregistered, and a pointer-move in Idle changes no table.
C6_PointerUpReleases ==
    [][/\ (lastEvent' = "mouseup" /\ Dragging) =>
              (~Dragging' /\ listeners' = {})
       /\ (lastEvent' = "mousemove" /\ ~Dragging) =>
              (tables' = tables /\ ~Dragging')]_vars

\* C6 witness: a drag was armed (the grab offset is recorded) and a pointer-up
\* has returned the controller to Idle.
C6_Witness ==
    /\ lastEvent = "mouseup"
    /\ dragOffset \in GrabOffsets
    /\ ~Dragging
    /\ listeners = {}

\* C7: a pointer-down arms a drag only from Idle: never while a drag target
\* is set or the drag listeners are registered.
C7_ArmOnlyFromIdle ==
    [][lastEvent' = "startDrag:armed" => (~Dragging /\ listeners = {})]_vars

\* C8: a pointer-move whose drag target is no longer in the model mutates
\* nothing and ends the drag.
C8_StaleTargetEndsDrag ==
    [][(lastEvent' = "mousemove" /\ dragTable.kind = "detached") =>
           (~Dragging' /\ listeners' = {} /\ tables' = tables)]_vars

\* C9: a load of an absent or malformed response ends with zero tables, and no
\* load ends with a table without position and size or with relationships
\* that were not recomputed from the new tables.
C9_AtomicLoad ==
    /\ lastEvent = "loadSchema:threw" => tables = <<>>
    /\ lastEvent \in {"loadSchema:threw", "loadSchema:loaded"} =>
           /\ \A i \in 1..Len(tables) : Positioned(tables[i])
           /\ relationships = DetectRelationships(tables)

C11_UniqueTableNames ==
    \A i, j \in 1..Len(tables) : tables[i].name = tables[j].name => i = j

\* C12: a reload that completes in manual mode recomputes no position: every
\* table of the new model whose name was in the model before keeps the x and
\* y it had.
C12_ManualReloadKeepsPositions ==
    [][(lastEvent' = "loadSchema:loaded" /\ ~autoLayout) =>
           \A i \in 1..Len(tables') : \A j \in 1..Len(tables) :
               (tables'[i].name = tables[j].name /\ Has(tables[j], "x") /\ Has(tables[j], "y")) =>
                   (tables'[i].x = tables[j].x /\ tables'[i].y = tables[j].y)]_vars

\* The top-left corner the claim gives table index of n (index from 0) on a
\* w x h canvas: centre + radius * cos/sin(angle) - size / 2, with the table's
\* own size, in whole pixels.
ClaimedAutoX(index, n, w, h, width) ==
    (3000 * w + 2 * Min(w, h) * Cos1000(index, n) - 3000 * width) \div 6000

ClaimedAutoY(index, n, w, h, height) ==
    (3000 * h + 2 * Min(w, h) * Sin1000(index, n) - 3000 * height) \div 6000

\* C13: after every successful load in auto mode, table i of N lies at angle
\* 2*pi*i/N on the circle of radius min(w, h)/3 around the canvas midpoint,
\* its top-left corner half its own width and half its own height away from
\* that point.
C13_RadialPlacement ==
    (lastEvent = "loadSchema:loaded" /\ autoLayout) =>
        \A i \in 1..Len(tables) :
            /\ Positioned(tables[i])
            /\ tables[i].x = ClaimedAutoX(i - 1, Len(tables), svgWidth, svgHeight, tables[i].width)
            /\ tables[i].y = ClaimedAutoY(i - 1, Len(tables), svgWidth, svgHeight, tables[i].height)

\* C14: after each pointer-move of a drag, the dragged table has a size and
\* lies at the pointer position minus the grab offset, x clamped to
\* [0, canvasWidth - width] and y to [0, canvasHeight - height]; the target
\* (-50, 900) on a 1200 x 800 canvas with a 280 x 225 node becomes (0, 575).
C14_DragTargetClamped ==
    /\ Max(0, Min(1200 - 280, -50)) = 0
    /\ Max(0, Min(800 - 225, 900)) = 575
    /\ (lastEvent = "mousemove" /\ Dragging) =>
           \E pointer \in Pointers :
               /\ Positioned(DraggedObject)
               /\ DraggedObject.x =
                      Max(0, Min(svgWidth - DraggedObject.width, pointer[1] - dragOffset[1]))
               /\ DraggedObject.y =
                      Max(0, Min(svgHeight - DraggedObject.height, pointer[2] - dragOffset[2]))

\* C15: no relationship is emitted for a column literally named id: the
\* column of every relationship ends with _id.
C15_OnlyIdSuffixColumns ==
    \A k \in 1..Len(relationships) : EndsWith(relationships[k].column, IdSuffix)

\* The (table, column) positions of ts whose column emits a relationship
EmittingPairs(ts) ==
    UNION {{<<i, c>> : c \in {d \in 1..Len(ts[i].columns) : Emits(ts, ts[i], ts[i].columns[d])}} :
              i \in 1..Len(ts)}

\* Table order, then column order
PairBefore(p, q) == p[1] < q[1] \/ (p[1] = q[1] /\ p[2] < q[2])

\* C16: after every successful load, whatever relationships held before,
\* relationships is exactly the list of the emitting (table, column) positions
\* of the current tables in table order and then column order, one entry
\* each: nothing of an earlier run is left and nothing is repeated.
C16_InferenceOrderedAndFresh ==
    lastEvent = "loadSchema:loaded" =>
        LET pairs == EmittingPairs(tables)
        IN  /\ Len(relationships) = Cardinality(pairs)
            /\ \A p \in pairs :
                   relationships[Cardinality({q \in pairs : PairBefore(q, p)}) + 1] =
                       [from |-> StripIdSuffix(tables[p[1]].columns[p[2]].name),
                        to |-> tables[p[1]].name,
                        column |-> tables[p[1]].columns[p[2]].name,
                        type |-> "foreign_key"]

\* C16 witness: a load has left two different relationships of one table, in
\* the order of its columns.
C16_Witness ==
    /\ lastEvent = "loadSchema:loaded"
    /\ Len(relationships) >= 2
    /\ relationships[1].to = relationships[2].to
    /\ relationships[1].column # relationships[2].column

\* C17: after every successful load, in either mode, every table has
\* width 280 and height 200 + 25 * (number of its columns).
C17_DerivedSize ==
    lastEvent = "loadSchema:loaded" =>
        \A i \in 1..Len(tables) :
            /\ Has(tables[i], "width") /\ Has(tables[i], "height")
            /\ tables[i].width = 280
            /\ tables[i].height = 200 + 25 * Len(tables[i].columns)

\* C17 witness: a manual-mode load has sized a table without columns to 200
\* and a table with one column to 225.
C17_Witness ==
    /\ lastEvent = "loadSchema:loaded"
    /\ ~autoLayout
    /\ \E i, j \in 1..Len(tables) :
           /\ Len(tables[i].columns) = 0 /\ tables[i].height = 200
           /\ Len(tables[j].columns) = 1 /\ tables[j].height = 225

\* C18: switching Auto Layout changes no table (no x, y, width or height),
\* and a pointer-down taken in manual mode arms a drag.
C18_ToggleKeepsPositions ==
    [][/\ lastEvent' = "toggleAutoLayout" => tables' = tables
       /\ (lastEvent' \in {"startDrag:armed", "startDrag:ignored"} /\ ~autoLayout) =>
              (lastEvent' = "startDrag:armed" /\ dragTable'.kind = "live")]_vars

\* C18 witness: the tables still lie where the auto layout put them, the mode
\* is manual, and a drag has been armed on one of them.
C18_Witness ==
    /\ lastEvent = "startDrag:armed"
    /\ ~autoLayout
    /\ Len(tables) > 0
    /\ \A i \in 1..Len(tables) :
           /\ Positioned(tables[i])
           /\ tables[i].x = AutoX(i - 1, Len(tables), svgWidth, svgHeight)
           /\ tables[i].y = AutoY(i - 1, Len(tables), svgWidth, svgHeight)

\* C19: a load that completes in manual mode on a model without tables (the
\* first load) seeds table i (from 0, in provider order) at
\* x = 100 + (i mod 3) * 350 and y = 100 + floor(i / 3) * 250.
C19_FirstManualLoadSeedsGrid ==
    [][(lastEvent' = "loadSchema:loaded" /\ ~autoLayout /\ tables = <<>>) =>
           \A i \in 1..Len(tables') :
               /\ Has(tables'[i], "x") /\ Has(tables'[i], "y")
               /\ tables'[i].x = 100 + ((i - 1) % 3) * 350
               /\ tables'[i].y = 100 + ((i - 1) \div 3) * 250]_vars

\* C19 witness: a manual-mode load has seeded a fourth table, which starts the
\* second row of the grid.
C19_Witness ==
    /\ lastEvent = "loadSchema:loaded"
    /\ ~autoLayout
    /\ Len(tables) >= 4
    /\ tables[3].x = 800 /\ tables[3].y = 100
    /\ tables[4].x = 100 /\ tables[4].y = 350

\* Table names a relationship may carry: those of the provider and one that
\* no table has
RelationshipNames == {<<"u">>, <<"o">>, <<"l">>, IdName, <<"x">>}

\* C20: in every reachable state, for every relationship (those held and any
\* other) whose from or to names no table of the current model,
\* calculateConnectionPath returns the empty path and does not throw.
C20_StalePathIsEmpty ==
    \A rel \in {relationships[k] : k \in 1..Len(relationships)}
               \cup {[from |-> f, to |-> t, column |-> IdName, type |-> "foreign_key"] :
                        f \in RelationshipNames, t \in RelationshipNames} :
        (~HasTableNamed(rel.from) \/ ~HasTableNamed(rel.to)) =>
            CalculateConnectionPath(rel) = EmptyPath

\* C20 witness: the model holds tables and a relationship left by an earlier
\* load whose from table is gone while its to table is there, and whose path
\* is empty.
C20_Witness ==
    /\ Len(tables) > 0
    /\ \E k \in 1..Len(relationships) :
           /\ ~HasTableNamed(relationships[k].from)
           /\ HasTableNamed(relationships[k].to)
           /\ CalculateConnectionPath(relationships[k]) = EmptyPath

\* C21: in every reachable state, for every relationship whose from and to
\* tables are both in the model, the curve starts at
\* (from.x + from.width, from.y + from.height / 2), ends at
\* (to.x, to.y + to.height / 2), and both control points have the x of the
\* midpoint, the first with the start's y, the second with the end's y (all
\* in half pixels, computed from the tables' current positions).
C21_CurveGeometry ==
    \A k \in 1..Len(relationships) :
        (HasTableNamed(relationships[k].from) /\ HasTableNamed(relationships[k].to)) =>
            LET from == Find(tables, relationships[k].from)
                to == Find(tables, relationships[k].to)
                path == CalculateConnectionPath(relationships[k])
            IN  /\ Positioned(from) /\ Positioned(to)
                /\ ~IsNaN(from.y) /\ ~IsNaN(to.y)
                /\ Len(path) = 8
                /\ path[1] = 2 * (from.x + from.width)
                /\ path[2] = 2 * from.y + from.height
                /\ path[7] = 2 * to.x
                /\ path[8] = 2 * to.y + to.height
                /\ 2 * path[3] = path[1] + path[7] /\ path[4] = path[2]
                /\ 2 * path[5] = path[1] + path[7] /\ path[6] = path[8]

C23_SqlExport ==
    lastEvent = "exportAsSQL" =>
        LET sql == ExportAsSQL
        IN  /\ sql # TypeError
            /\ Len(sql) = Len(tables)
            /\ \A i \in 1..Len(tables) :
                   /\ sql[i].create = tables[i].name
                   /\ Len(sql[i].lines) = Len(tables[i].columns)
                   /\ \A c \in 1..Len(tables[i].columns) :
                          LET col == tables[i].columns[c]
                              line == sql[i].lines[c]
                              words == {line.keywords[k] : k \in 1..Len(line.keywords)}
                          IN  /\ line.name = col.name
                              /\ line.comma = (c < Len(tables[i].columns))
                              /\ ("PRIMARY KEY" \in words) = (col.primary = TRUE)
                              /\ Has(col, "unique") => (("UNIQUE" \in words) = (col.unique = TRUE))
                              /\ Has(col, "nullable") =>
                                     (("NOT NULL" \in words) = (col.nullable = FALSE))
                              /\ ("DEFAULT" \in words) = Has(col, "default")
                              /\ Has(col, "default") => line.value = <<col.default>>
                              /\ "FOREIGN KEY" \notin words

C25_EmptyLoad ==
    [][(\E resp \in EmptyResponses : LoadResolved(resp)) =>
            /\ tables' = <<>>
            /\ relationships' = <<>>
            /\ lastEvent' = "loadSchema:loaded"]_vars

\* C25 witness: in auto mode a load has completed with zero tables while a
\* drag that began on a table of the previous schema is still armed.
C25_Witness ==
    /\ lastEvent = "loadSchema:loaded"
    /\ tables = <<>>
    /\ relationships = <<>>
    /\ autoLayout
    /\ dragTable.kind = "detached"

\* What a load fixes of a table: every property but its position and size
Frozen(t) == [f \in DOMAIN t \ {"x", "y", "width", "height"} |-> t[f]]

\* Everything of a table but its position
Unmoved(t) == [f \in DOMAIN t \ {"x", "y"} |-> t[f]]

\* C26: a step that is not the completion of a load (a drag, a toggle, an
\* export, the start of a load) keeps the number of tables and each table's
\* name, row_count and columns; a pointer-move keeps the relationships and
\* every table's width and height, and changes no table but the dragged one.
C26_Frame ==
    [][/\ pending' >= pending =>
            /\ Len(tables') = Len(tables)
            /\ \A i \in 1..Len(tables) : Frozen(tables'[i]) = Frozen(tables[i])
       /\ lastEvent' = "mousemove" =>
            /\ relationships' = relationships
            /\ \A i \in 1..Len(tables) :
                   /\ Unmoved(tables'[i]) = Unmoved(tables[i])
                   /\ tables'[i] # tables[i] =>
                          dragTable.kind = "live" /\ dragTable.index = i]_vars

\* C26 witness: a pointer-move has carried the second of two related tables
\* to the left edge of the canvas.
C26_Witness ==
    /\ lastEvent = "mousemove"
    /\ Len(tables) = 2
    /\ Len(relationships) > 0
    /\ dragTable = [kind |-> "live", index |-> 2]
    /\ tables[2].x = 0
    /\ tables[1].x # 0

\* C27: the document's mousemove and mouseup listeners are registered, both
\* of them, exactly when dragTable is non-null.
C27_ListenersIffDragging ==
    /\ (dragTable.kind # "null") => listeners = {"mousemove", "mouseup"}
    /\ (dragTable.kind = "null") => listeners = {}

\* C27 witness: a drag is armed on a table that a reload has since replaced,
\* and a pointer-move has been handled.
C27_Witness ==
    /\ dragTable.kind = "detached"
    /\ listeners = {"mousemove", "mouseup"}
    /\ lastEvent = "mousemove"

\* C28: a pointer-move that arrives while autoLayout is true changes no
\* table's position, whatever toggles of the flag came before it.
C28_NoMoveInAutoMode ==
    [][(lastEvent' = "mousemove" /\ autoLayout) => tables' = tables]_vars

\* C29: with loads started by the mount hook and the refresh button only, at
\* most one load is outstanding, and loading is true exactly while one is:
\* after the start of a load and until it resolves, throws or is rejected.
C29_LoadingIffOutstanding ==
    /\ pending <= 1
    /\ loading = (pending = 1)

\* C29 witness: a refresh is outstanding after an earlier load ended in a
\* TypeError.
C29_Witness ==
    /\ lastEvent = "refreshSchema"
    /\ loading
    /\ pending = 1
    /\ Throws(tables)

\* The last n elements of s, newest first
NewestFirst(s, n) == [i \in 1..Min(n, Len(s)) |-> s[Len(s) + 1 - i]]

\* C30: after a call of addToQueryHistory the history holds at most 20
\* entries, it is exactly the 20 (or fewer) entries added last, newest
\* first, and the item in localStorage parses to the same list.
C30_HistoryNewestTwenty ==
    lastEvent = "addToQueryHistory" =>
        /\ Len(queryHistory) <= HistoryLimit
        /\ queryHistory = NewestFirst(added, HistoryLimit)
        /\ localStorage # NoItem
        /\ Parse(localStorage) = queryHistory

\* C30 witness: more entries have been added than the history keeps, not
\* all at the same clock reading.
C30_Witness ==
    /\ lastEvent = "addToQueryHistory"
    /\ Len(added) > HistoryLimit
    /\ Len(queryHistory) = HistoryLimit
    /\ queryHistory[1] # queryHistory[HistoryLimit]

====
